---- MODULE Spec2Model ----
(***************************************************************************)
(* Model of src/models/model_evaluation.py: the evaluation pipeline        *)
(* main() -> load_model, load_data, column split, evaluate_model (which    *)
(* calls load_params and writes to a dvclive Live session) and             *)
(* save_metrics_dict, with the try/except wrapper of every function.       *)
(*                                                                         *)
(* Floats are modelled as reduced fractions <<num, den>>; a dict is the    *)
(* sequence of its items in insertion order; a log message is the          *)
(* sequence of the words of its literal text.  Failures are instances of   *)
(* Python's Exception (KeyboardInterrupt / SystemExit are not modelled).   *)
(***************************************************************************)
EXTENDS Integers, Sequences, FiniteSets, TLC

\* ------------------------------------------------------------- bounds
\* rows of the test table in a run of main() / a direct evaluate_model call
MaxRows == 2
\* predict_proba scores are k / MaxScore for k in 0..MaxScore
MaxScore == 1
\* sections of params.yaml and hyperparameters per section
MaxSections == 1
MaxKeys == 1
\* rows given to the canned-prediction classifier of SpecMetrics
MaxLabels == 4

\* ------------------------------------------------------------- helpers
RECURSIVE Gcd(_, _)
Gcd(a, b) == IF b = 0 THEN a ELSE Gcd(b, a % b)

\* the float n / d (d > 0): equal quotients are equal values
Frac(n, d) == <<n \div Gcd(n, d), d \div Gcd(n, d)>>

Unset == <<0, 0>>

RECURSIVE SumOver(_, _)
SumOver(f, S) ==
    IF S = {} THEN 0
    ELSE LET x == CHOOSE y \in S : TRUE IN f[x] + SumOver(f, S \ {x})

SeqsUpTo(S, n) == UNION {[1..k -> S] : k \in 0..n}

\* ------------------------------------------------- exception classes
\* the direct base class of each exception class that can occur
Parent(c) ==
    CASE c \in {"FileNotFoundError", "PermissionError"} -> "OSError"
      [] c \in {"EmptyDataError", "ParserError", "UnicodeDecodeError"} -> "ValueError"
      [] c \in {"KeyError", "IndexError"} -> "LookupError"
      [] c = "UnpicklingError" -> "PickleError"
      [] OTHER -> "Exception"

RECURSIVE IsInstance(_, _)
IsInstance(c, k) ==
    \/ c = k
    \/ c # "Exception" /\ IsInstance(Parent(c), k)

NoExc == [cls |-> "none", origin |-> "none"]
Raise(c, o) == [cls |-> c, origin |-> o]

\* an except-clause list is a sequence of [catch, msg]; the first clause whose
\* class the exception is an instance of handles it
FirstMatch(clauses, c) ==
    LET hits == {i \in 1..Len(clauses) : IsInstance(c, clauses[i].catch)}
    IN IF hits = {} THEN 0 ELSE CHOOSE i \in hits : \A j \in hits : i <= j

load_params_clauses ==
    << [catch |-> "FileNotFoundError", msg |-> "load_params:FileNotFoundError"],
       [catch |-> "YAMLError",         msg |-> "load_params:YAMLError"],
       [catch |-> "KeyError",          msg |-> "load_params:KeyError"],
       [catch |-> "Exception",         msg |-> "load_params:Exception"] >>

\* faulty variant of load_model's clauses: the catch-all comes first
load_model_clauses_generic_first ==
    << [catch |-> "Exception",         msg |-> "load_model:Exception"],
       [catch |-> "FileNotFoundError", msg |-> "load_model:FileNotFoundError"],
       [catch |-> "UnpicklingError",   msg |-> "load_model:UnpicklingError"] >>

load_model_clauses ==
    << [catch |-> "FileNotFoundError", msg |-> "load_model:FileNotFoundError"],
       [catch |-> "UnpicklingError",   msg |-> "load_model:UnpicklingError"],
       [catch |-> "Exception",         msg |-> "load_model:Exception"] >>

load_data_clauses ==
    << [catch |-> "FileNotFoundError", msg |-> "load_data:FileNotFoundError"],
       [catch |-> "EmptyDataError",    msg |-> "load_data:EmptyDataError"],
       [catch |-> "ParserError",       msg |-> "load_data:ParserError"],
       [catch |-> "Exception",         msg |-> "load_data:Exception"] >>

evaluate_model_clauses ==
    << [catch |-> "AttributeError",    msg |-> "evaluate_model:AttributeError"],
       [catch |-> "ValueError",        msg |-> "evaluate_model:ValueError"],
       [catch |-> "Exception",         msg |-> "evaluate_model:Exception"] >>

save_metrics_dict_clauses ==
    << [catch |-> "OSError",           msg |-> "save_metrics_dict:IOError"],
       [catch |-> "TypeError",         msg |-> "save_metrics_dict:TypeError"],
       [catch |-> "Exception",         msg |-> "save_metrics_dict:Exception"] >>

main_clauses ==
    << [catch |-> "Exception",         msg |-> "main:Exception"] >>

\* the words of the literal text of each logger call (the interpolated
\* exception text {e} is not part of it)
LogText(msg) ==
    CASE msg = "load_params:FileNotFoundError" ->
            <<"Error:", "The", "file", "params.yaml", "was", "not", "found.">>
      [] msg = "load_params:YAMLError" ->
            <<"Error", "parsing", "YAML", "file:">>
      [] msg = "load_params:KeyError" ->
            <<"Error:", "'model_building',", "'n_estimators',", "or",
              "'learning_rate'", "key", "not", "found", "in", "params.">>
      [] msg = "load_params:Exception" ->
            <<"An", "unexpected", "error", "occurred", "while", "loading", "parameters:">>
      [] msg = "load_model:FileNotFoundError" ->
            <<"Error:", "The", "file", "models/model.pkl", "was", "not", "found.">>
      [] msg = "load_model:UnpicklingError" ->
            <<"Error:", "The", "file", "could", "not", "be", "unpickled.", "It", "may",
              "not", "be", "a", "valid", "pickle", "file.">>
      [] msg = "load_model:Exception" ->
            <<"An", "unexpected", "error", "occurred", "while", "loading", "the", "model:">>
      [] msg = "load_data:FileNotFoundError" ->
            <<"Error:", "File", "not", "found", "in", "path", "data/processed.", "Details:">>
      [] msg = "load_data:EmptyDataError" ->
            <<"Error:", "The", "CSV", "file", "is", "empty.">>
      [] msg = "load_data:ParserError" ->
            <<"Error:", "Error", "parsing", "the", "CSV", "file.">>
      [] msg = "load_data:Exception" ->
            <<"An", "unexpected", "error", "occurred", "while", "loading", "data:">>
      [] msg = "evaluate_model:AttributeError" ->
            <<"Error:", "Model", "does", "not", "have", "the", "required", "methods.",
              "Details:">>
      [] msg = "evaluate_model:ValueError" ->
            <<"Error:", "Value", "error", "in", "predictions", "or", "metrics",
              "calculation.", "Details:">>
      [] msg = "evaluate_model:Exception" ->
            <<"An", "unexpected", "error", "occurred", "while", "evaluating", "the", "model:">>
      [] msg = "save_metrics_dict:IOError" ->
            <<"Error:", "An", "I/O", "error", "occurred", "while", "saving", "the", "metrics:">>
      [] msg = "save_metrics_dict:TypeError" ->
            <<"Error:", "Type", "error", "in", "metrics", "dictionary.", "Details:">>
      [] msg = "save_metrics_dict:Exception" ->
            <<"An", "unexpected", "error", "occurred", "while", "saving", "metrics:">>
      [] msg = "main:Exception" ->
            <<"An", "error", "occurred", "in", "the", "main", "function:">>
      [] msg = "main:model_loaded" ->
            <<"Saved", "model", "loaded", "successfully">>
      [] msg = "main:data_loaded" ->
            <<"Test", "Data", "loaded", "successfully">>
      [] msg = "main:evaluated" ->
            <<"Model", "Evaluation", "dictionary", "created", "successfully">>
      [] msg = "main:saved" ->
            <<"JSON", "dump", "of", "model", "evaluation", "dictionary", "done">>
      [] OTHER -> <<>>

\* the words of the two char strings "not found" / "not found." : a message
\* contains "not found" when "not" is followed by a word starting with "found"
ContainsNotFound(text) ==
    \E i \in 1..(Len(text) - 1) :
        text[i] = "not" /\ text[i + 1] \in {"found", "found."}

\* ------------------------------------------------------ sklearn metrics
Labels == {0, 1}
Scores == 0..MaxScore

Count(S) == Cardinality(S)
Rows(Y) == 1..Len(Y)

\* accuracy_score(y_true, y_pred): the fraction of rows predicted correctly
accuracy_score(Y, P) ==
    Frac(Count({i \in Rows(Y) : P[i] = Y[i]}), Len(Y))

\* precision_score(y_true, y_pred), pos_label = 1, zero_division -> 0.0
precision_score(Y, P) ==
    LET tp == Count({i \in Rows(Y) : P[i] = 1 /\ Y[i] = 1})
        pp == Count({i \in Rows(Y) : P[i] = 1})
    IN IF pp = 0 THEN Frac(0, 1) ELSE Frac(tp, pp)

\* faulty variant of recall: divides by the predicted positives
recall_score_as_precision(Y, P) ==
    LET tp == Count({i \in Rows(Y) : P[i] = 1 /\ Y[i] = 1})
        pp == Count({i \in Rows(Y) : P[i] = 1})
    IN IF pp = 0 THEN Frac(0, 1) ELSE Frac(tp, pp)

\* recall_score(y_true, y_pred), pos_label = 1, zero_division -> 0.0
recall_score(Y, P) ==
    LET tp == Count({i \in Rows(Y) : P[i] = 1 /\ Y[i] = 1})
        ap == Count({i \in Rows(Y) : Y[i] = 1})
    IN IF ap = 0 THEN Frac(0, 1) ELSE Frac(tp, ap)

\* roc_auc_score(y_true, y_score): the fraction of (positive, negative) pairs
\* ranked correctly, a tie counting one half
roc_auc_score(Y, S) ==
    LET pos == {i \in Rows(Y) : Y[i] = 1}
        neg == {i \in Rows(Y) : Y[i] = 0}
        pairs == pos \X neg
        pts == [pr \in pairs |->
                  IF S[pr[1]] > S[pr[2]] THEN 2
                  ELSE IF S[pr[1]] = S[pr[2]] THEN 1 ELSE 0]
    IN Frac(SumOver(pts, pairs), 2 * Count(pairs))

\* sklearn's check_consistent_length: the first check of every metric
\* faulty variant: only an empty y_true or one longer than y_pred is rejected
InconsistentLengthOneSided(Y, P) == Len(Y) = 0 \/ Len(Y) > Len(P)
InconsistentLength(Y, P) == Len(Y) # Len(P)
\* roc_auc_score raises ValueError "Only one class present in y_true. ROC AUC
\* score is not defined in that case."
OneClass(Y) == Count({Y[i] : i \in Rows(Y)}) < 2

\* ---------------------------------------------------------- the inputs
\* a classifier object: its capabilities, and what it answers.  An "opaque"
\* classifier may answer any labels / scores; a "canned" one answers the
\* labels it holds, with score MaxScore for label 1 and 0 for label 0
NoClf == [predict |-> FALSE, predict_proba |-> FALSE, kind |-> "unset", canned |-> <<>>]
OpaqueClfs ==
    [predict : BOOLEAN, predict_proba : BOOLEAN, kind : {"opaque"}, canned : {<<>>}]
CannedClf(labels) ==
    [predict |-> TRUE, predict_proba |-> TRUE, kind |-> "canned", canned |-> labels]

PredictOutputs(c, R) ==
    IF c.kind = "canned" THEN {c.canned} ELSE [1..R -> Labels]
ProbaOutputs(c, R) ==
    IF c.kind = "canned" THEN {[i \in 1..Len(c.canned) |-> c.canned[i] * MaxScore]}
    ELSE [1..R -> Scores]

\* params.yaml as yaml.safe_load returns it: None (an empty file), a scalar,
\* or a mapping section -> value, each value a scalar or a mapping key -> number
SectionNames == <<"data_ingestion", "feature_engineering", "model_building", "model_evaluation">>
KeyNames == <<"test_size", "max_features", "n_estimators", "learning_rate">>

NoParams == [kind |-> "unset", items |-> <<>>]
YamlNone == [kind |-> "none", items |-> <<>>]
YamlScalar == [kind |-> "scalar", items |-> <<>>]
\* shape -1: the section's value is a scalar; shape k >= 0: a mapping of k keys
YamlSection(i, shape) ==
    [name |-> SectionNames[i],
     kind |-> IF shape < 0 THEN "scalar" ELSE "mapping",
     items |-> [j \in 1..(IF shape < 0 THEN 0 ELSE shape) |->
                  [key |-> KeyNames[j], val |-> Frac(j, 1)]]]
YamlMapping(shapes) ==
    [kind |-> "mapping", items |-> [i \in 1..Len(shapes) |-> YamlSection(i, shapes[i])]]
YamlContents ==
    {YamlNone, YamlScalar}
      \cup {YamlMapping(sh) : sh \in SeqsUpTo(-1..MaxKeys, MaxSections)}
WellFormedParams == YamlMapping([i \in 1..MaxSections |-> MaxKeys])

\* reports/metrics.json: whether it exists, its members, how often it was opened
\* for writing
NoFile == [exists |-> FALSE, content |-> <<>>, writes |-> 0]
StaleFile ==
    [exists |-> TRUE,
     content |-> << [key |-> "accuracy", value |-> Frac(1, 1)] >>,
     writes |-> 0]

\* what open() / the parser finds at each fixed path
ModelFiles == {"absent", "unreadable", "not_pickle", "truncated", "valid"}
DataFiles == {"absent", "empty", "malformed", "undecodable", "valid"}
ParamsFiles ==
    [status : {"absent", "invalid_yaml", "unreadable"}, yaml : {NoParams}]
      \cup [status : {"valid"}, yaml : YamlContents]
ReportsDirs == {"missing", "writable"}

Tables == SeqsUpTo(Labels, MaxRows) \ {<<>>}

\* ------------------------------------------------------------ the state
VARIABLES
    entry,          \* the function that was invoked: "main" or "evaluate_model"
    pc,             \* the statement about to run
    exc,            \* the exception being propagated, NoExc if none
    paramsFile,     \* params.yaml as the run finds it (read-only)
    metrics0,       \* reports/metrics.json before the run (read-only)
    clf, test_data, X_test, Y_test,           \* main's / evaluate_model's locals
    Y_pred, Y_pred_proba, params,
    accuracy, precision, recall, auc,
    sec, key,       \* the position of the two loops over params
    live,           \* the dvclive session: its state and the records it received
    metrics_dict,   \* the mapping returned by evaluate_model
    metricsFile,    \* reports/metrics.json
    log,            \* the logger's records
    calls,          \* the stages main() has started, with how each ended
    outcome         \* how the invoked function ended

vars == <<entry, pc, exc, paramsFile, metrics0, clf, test_data, X_test, Y_test,
          Y_pred, Y_pred_proba, params, accuracy, precision, recall, auc, sec, key,
          live, metrics_dict, metricsFile, log, calls, outcome>>

env == <<entry, paramsFile, metrics0>>
dataVars == <<clf, test_data, X_test, Y_test>>
predVars == <<Y_pred, Y_pred_proba>>
metricVars == <<accuracy, precision, recall, auc>>
loopVars == <<sec, key>>
evalVars == <<predVars, params, metricVars, loopVars, live, metrics_dict>>

NoLive == [state |-> "none", records |-> <<>>]

InitLocals ==
    /\ exc = NoExc
    /\ Y_pred = <<>> /\ Y_pred_proba = <<>>
    /\ params = NoParams
    /\ accuracy = Unset /\ precision = Unset /\ recall = Unset /\ auc = Unset
    /\ sec = 0 /\ key = 0
    /\ live = NoLive
    /\ metrics_dict = <<>>
    /\ log = <<>>
    /\ calls = <<>>
    /\ outcome = "running"

\* python model_evaluation.py: main() is about to run
Init ==
    /\ entry = "main"
    /\ pc = "main"
    /\ paramsFile \in ParamsFiles
    /\ metrics0 \in {NoFile, StaleFile}
    /\ metricsFile = metrics0
    /\ clf = NoClf /\ test_data = <<>> /\ X_test = 0 /\ Y_test = <<>>
    /\ InitLocals

\* the arguments of a direct call evaluate_model(clf, X_test, Y_test): any
\* classifier object, X_test of R rows and Y_test of any length beside any
\* params.yaml; or a classifier that answers canned labels, one per row, with
\* labels for every row beside a well-formed params.yaml
OpaqueCall ==
    /\ paramsFile \in ParamsFiles
    /\ clf \in OpaqueClfs
    /\ X_test \in 1..MaxRows
    /\ Y_test \in SeqsUpTo(Labels, MaxRows)

CannedCall ==
    /\ paramsFile = [status |-> "valid", yaml |-> WellFormedParams]
    /\ \E n \in 1..MaxLabels :
          /\ X_test = n
          /\ Y_test \in [1..n -> Labels]
          /\ \E labels \in [1..n -> Labels] : clf = CannedClf(labels)

InitEval ==
    /\ entry = "evaluate_model"
    /\ pc = "ev_predict"
    /\ metrics0 = NoFile
    /\ metricsFile = metrics0
    /\ test_data = <<>>
    /\ (OpaqueCall \/ CannedCall)
    /\ InitLocals

\* ------------------------------------------------------------- logging
Logged(level, fn, msg) == Append(log, [level |-> level, fn |-> fn, msg |-> msg])

\* main()'s bookkeeping of its stages
Started(stage) == Append(calls, [stage |-> stage, status |-> "running", error |-> NoExc])
Ended(status) ==
    IF calls = <<>> THEN calls
    ELSE [calls EXCEPT ![Len(calls)].status = status, ![Len(calls)].error = exc]

\* faulty variant of a stage's except clauses: raises again without logging
StageHandlerSilent(fn, clauses, caller_except) ==
    /\ pc = fn \o "_except"
    /\ pc' = caller_except
    /\ UNCHANGED <<exc, log>>

\* the except clauses of a stage: log at error severity with the message of
\* the first matching clause, then a bare `raise` to the caller's handler
StageHandler(fn, clauses, caller_except) ==
    /\ pc = fn \o "_except"
    /\ log' = Logged("ERROR", fn, clauses[FirstMatch(clauses, exc.cls)].msg)
    /\ pc' = caller_except
    /\ UNCHANGED exc

\* ---------------------------------------------------------- load_model
\* main, line 131: clf = load_model('models/model.pkl')
main_load_model ==
    /\ pc = "main"
    /\ pc' = "load_model"
    /\ calls' = Started("load_model")
    /\ UNCHANGED <<env, exc, dataVars, evalVars, metricsFile, log, outcome>>

\* load_model, lines 48-51: open the file and unpickle it
load_model_try ==
    /\ pc = "load_model"
    /\ \E f \in ModelFiles :
        \/ /\ f = "absent"
           /\ exc' = Raise("FileNotFoundError", "open:models/model.pkl")
           /\ pc' = "load_model_except"
           /\ UNCHANGED <<clf, calls>>
        \/ /\ f = "unreadable"
           /\ exc' = Raise("PermissionError", "open:models/model.pkl")
           /\ pc' = "load_model_except"
           /\ UNCHANGED <<clf, calls>>
        \/ /\ f = "not_pickle"
           /\ exc' = Raise("UnpicklingError", "pickle.load")
           /\ pc' = "load_model_except"
           /\ UNCHANGED <<clf, calls>>
        \/ /\ f = "truncated"
           /\ exc' = Raise("EOFError", "pickle.load")
           /\ pc' = "load_model_except"
           /\ UNCHANGED <<clf, calls>>
        \/ /\ f = "valid"
           /\ clf' \in OpaqueClfs
           /\ calls' = Ended("ok")
           /\ pc' = "main_load_data"
           /\ UNCHANGED exc
    /\ UNCHANGED <<env, test_data, X_test, Y_test, evalVars, metricsFile, log, outcome>>

\* load_model, lines 52-60
load_model_except ==
    /\ StageHandler("load_model", load_model_clauses, "main_except")
    /\ UNCHANGED <<env, dataVars, evalVars, metricsFile, calls, outcome>>

\* ----------------------------------------------------------- load_data
\* main, lines 132-133: debug log, test_data = load_data('data/processed')
main_load_data ==
    /\ pc = "main_load_data"
    /\ log' = Logged("DEBUG", "main", "main:model_loaded")
    /\ calls' = Started("load_data")
    /\ pc' = "load_data"
    /\ UNCHANGED <<env, exc, dataVars, evalVars, metricsFile, outcome>>

\* load_data, lines 64-65: pd.read_csv of test_bow.csv
load_data_try ==
    /\ pc = "load_data"
    /\ \E f \in DataFiles :
        \/ /\ f = "absent"
           /\ exc' = Raise("FileNotFoundError", "read_csv")
           /\ pc' = "load_data_except"
           /\ UNCHANGED <<test_data, calls>>
        \/ /\ f = "empty"
           /\ exc' = Raise("EmptyDataError", "read_csv")
           /\ pc' = "load_data_except"
           /\ UNCHANGED <<test_data, calls>>
        \/ /\ f = "malformed"
           /\ exc' = Raise("ParserError", "read_csv")
           /\ pc' = "load_data_except"
           /\ UNCHANGED <<test_data, calls>>
        \/ /\ f = "undecodable"
           /\ exc' = Raise("UnicodeDecodeError", "read_csv")
           /\ pc' = "load_data_except"
           /\ UNCHANGED <<test_data, calls>>
        \/ /\ f = "valid"
           /\ test_data' \in Tables
           /\ calls' = Ended("ok")
           /\ pc' = "main_split"
           /\ UNCHANGED exc
    /\ UNCHANGED <<env, clf, X_test, Y_test, evalVars, metricsFile, log, outcome>>

\* faulty variant of load_data's handler: logs, forgets the raise, and
\* load_data returns None to main
load_data_except_swallow ==
    /\ pc = "load_data_except"
    /\ log' = Logged("ERROR", "load_data", "load_data:Exception")
    /\ exc' = NoExc
    /\ pc' = "main_split"
    /\ UNCHANGED <<env, dataVars, evalVars, metricsFile, calls, outcome>>

\* load_data, lines 66-77
load_data_except ==
    /\ StageHandler("load_data", load_data_clauses, "main_except")
    /\ UNCHANGED <<env, dataVars, evalVars, metricsFile, calls, outcome>>

\* main, lines 134-136: debug log, then the split by column position: the
\* features keep every row, the labels are the last column
main_split ==
    /\ pc = "main_split"
    /\ log' = Logged("DEBUG", "main", "main:data_loaded")
    /\ \/ /\ X_test' = Len(test_data)
          /\ Y_test' = test_data
          /\ calls' = Append(calls, [stage |-> "split", status |-> "ok", error |-> NoExc])
          /\ pc' = "main_evaluate"
          /\ UNCHANGED exc
       \/ /\ exc' = Raise("MemoryError", "iloc")
          /\ calls' = Started("split")
          /\ pc' = "main_except"
          /\ UNCHANGED <<X_test, Y_test>>
    /\ UNCHANGED <<env, clf, test_data, evalVars, metricsFile, outcome>>

\* ------------------------------------------------------ evaluate_model
\* main, line 137: metrics_dict = evaluate_model(clf, X_test, Y_test)
main_evaluate ==
    /\ pc = "main_evaluate"
    /\ calls' = Started("evaluate_model")
    /\ pc' = "ev_predict"
    /\ UNCHANGED <<env, exc, dataVars, evalVars, metricsFile, log, outcome>>

\* line 81: Y_pred = clf.predict(X_test)
ev_predict ==
    /\ pc = "ev_predict"
    /\ \/ /\ ~clf.predict
          /\ exc' = Raise("AttributeError", "predict")
          /\ pc' = "evaluate_model_except"
          /\ UNCHANGED Y_pred
       \/ /\ clf.predict /\ clf.kind = "opaque"     \* the classifier rejects X_test
          /\ exc' = Raise("ValueError", "predict")
          /\ pc' = "evaluate_model_except"
          /\ UNCHANGED Y_pred
       \/ /\ clf.predict
          /\ Y_pred' \in PredictOutputs(clf, X_test)
          /\ pc' = "ev_predict_proba"
          /\ UNCHANGED exc
    /\ UNCHANGED <<env, dataVars, Y_pred_proba, params, metricVars, loopVars, live,
                   metrics_dict, metricsFile, log, calls, outcome>>

\* line 82: Y_pred_proba = clf.predict_proba(X_test)[:, 1]
ev_predict_proba ==
    /\ pc = "ev_predict_proba"
    /\ \/ /\ ~clf.predict_proba
          /\ exc' = Raise("AttributeError", "predict_proba")
          /\ pc' = "evaluate_model_except"
          /\ UNCHANGED Y_pred_proba
       \/ /\ clf.predict_proba /\ clf.kind = "opaque"   \* a one-column matrix
          /\ exc' = Raise("IndexError", "predict_proba[:, 1]")
          /\ pc' = "evaluate_model_except"
          /\ UNCHANGED Y_pred_proba
       \/ /\ clf.predict_proba
          /\ Y_pred_proba' \in ProbaOutputs(clf, X_test)
          /\ pc' = "load_params"
          /\ UNCHANGED exc
    /\ UNCHANGED <<env, dataVars, Y_pred, params, metricVars, loopVars, live,
                   metrics_dict, metricsFile, log, calls, outcome>>

\* line 83 and load_params, lines 31-33: params = load_params('params.yaml')
load_params_try ==
    /\ pc = "load_params"
    /\ \/ /\ paramsFile.status = "absent"
          /\ exc' = Raise("FileNotFoundError", "open:params.yaml")
          /\ pc' = "load_params_except"
          /\ UNCHANGED params
       \/ /\ paramsFile.status = "unreadable"
          /\ exc' = Raise("PermissionError", "open:params.yaml")
          /\ pc' = "load_params_except"
          /\ UNCHANGED params
       \/ /\ paramsFile.status = "invalid_yaml"
          /\ exc' = Raise("YAMLError", "yaml.safe_load")
          /\ pc' = "load_params_except"
          /\ UNCHANGED params
       \/ /\ paramsFile.status = "valid"
          /\ params' = paramsFile.yaml
          /\ pc' = "ev_metrics"
          /\ UNCHANGED exc
    /\ UNCHANGED <<env, dataVars, predVars, metricVars, loopVars, live,
                   metrics_dict, metricsFile, log, calls, outcome>>

\* faulty variant of load_params' handler: logs and returns None instead of
\* raising
load_params_except_default ==
    /\ pc = "load_params_except"
    /\ log' = Logged("ERROR", "load_params", "load_params:Exception")
    /\ exc' = NoExc
    /\ pc' = "ev_metrics"
    /\ UNCHANGED <<env, dataVars, evalVars, metricsFile, calls, outcome>>

\* load_params, lines 34-45
load_params_except ==
    /\ StageHandler("load_params", load_params_clauses, "evaluate_model_except")
    /\ UNCHANGED <<env, dataVars, evalVars, metricsFile, calls, outcome>>

\* lines 84-87: the four metric calls, in order; the first that raises ends them
ev_metrics ==
    /\ pc = "ev_metrics"
    /\ \/ /\ InconsistentLength(Y_test, Y_pred)
          /\ exc' = Raise("ValueError", "accuracy_score")
          /\ pc' = "evaluate_model_except"
          /\ UNCHANGED metricVars
       \/ /\ ~InconsistentLength(Y_test, Y_pred)
          /\ accuracy' = accuracy_score(Y_test, Y_pred)
          /\ precision' = precision_score(Y_test, Y_pred)
          /\ recall' = recall_score(Y_test, Y_pred)
          /\ \/ /\ OneClass(Y_test)
                /\ exc' = Raise("ValueError", "roc_auc_score")
                /\ pc' = "evaluate_model_except"
                /\ UNCHANGED auc
             \/ /\ ~OneClass(Y_test)
                /\ auc' = roc_auc_score(Y_test, Y_pred_proba)
                /\ pc' = "ev_live_open"
                /\ UNCHANGED exc
    /\ UNCHANGED <<env, dataVars, predVars, params, loopVars, live,
                   metrics_dict, metricsFile, log, calls, outcome>>

\* the names the four metrics are logged under, and the values logged
MetricNames == <<"accuracy", "precision", "recall", "roc -auc score">>
\* faulty variant: precision and recall logged under each other's name
MetricValuesSwapped == <<accuracy, recall, precision, auc>>
MetricValues == <<accuracy, precision, recall, auc>>
MetricRecord(i) == [kind |-> "metric", name |-> <<MetricNames[i]>>, value |-> MetricValues[i]]
\* f'{param}_{key}', val
ParamRecord(section, item) ==
    [kind |-> "param", name |-> <<section.name, "_", item.key>>, value |-> item.val]

\* line 88: with Live(save_dvc_exp = True) as live
ev_live_open ==
    /\ pc = "ev_live_open"
    /\ \/ /\ live' = [state |-> "open", records |-> <<>>]
          /\ pc' = "ev_log_metric"
          /\ UNCHANGED exc
       \/ /\ exc' = Raise("DvcLiveError", "Live")
          /\ pc' = "evaluate_model_except"
          /\ UNCHANGED live
    /\ UNCHANGED <<env, dataVars, predVars, params, metricVars, loopVars,
                   metrics_dict, metricsFile, log, calls, outcome>>

\* lines 89-92: the next live.log_metric call
ev_log_metric ==
    /\ pc = "ev_log_metric"
    /\ LET i == Len(live.records) + 1 IN
       \/ /\ live' = [live EXCEPT !.records = Append(@, MetricRecord(i))]
          /\ pc' = IF i = Len(MetricNames) THEN "ev_params_items" ELSE "ev_log_metric"
          /\ UNCHANGED exc
       \/ /\ exc' = Raise("OSError", "log_metric")
          /\ pc' = "ev_live_exit"
          /\ UNCHANGED live
    /\ UNCHANGED <<env, dataVars, predVars, params, metricVars, loopVars,
                   metrics_dict, metricsFile, log, calls, outcome>>

\* line 94: params.items() starts the outer loop
ev_params_items ==
    /\ pc = "ev_params_items"
    /\ \/ /\ params.kind # "mapping"
          /\ exc' = Raise("AttributeError", "params.items")
          /\ pc' = "ev_live_exit"
          /\ UNCHANGED sec
       \/ /\ params.kind = "mapping"
          /\ sec' = 1
          /\ pc' = "ev_section"
          /\ UNCHANGED exc
    /\ UNCHANGED <<env, dataVars, predVars, params, metricVars, key, live,
                   metrics_dict, metricsFile, log, calls, outcome>>

\* lines 94-95: the outer loop takes its next (param, value); value.items()
\* starts the inner loop
ev_section ==
    /\ pc = "ev_section"
    /\ \/ /\ sec > Len(params.items)
          /\ pc' = "ev_live_exit"
          /\ UNCHANGED <<exc, key>>
       \/ /\ sec <= Len(params.items)
          /\ params.items[sec].kind # "mapping"
          /\ exc' = Raise("AttributeError", "value.items")
          /\ pc' = "ev_live_exit"
          /\ UNCHANGED key
       \/ /\ sec <= Len(params.items)
          /\ params.items[sec].kind = "mapping"
          /\ key' = 1
          /\ pc' = "ev_log_param"
          /\ UNCHANGED exc
    /\ UNCHANGED <<env, dataVars, predVars, params, metricVars, sec, live,
                   metrics_dict, metricsFile, log, calls, outcome>>

\* lines 95-96: the inner loop takes its next (key, val) and logs it
ev_log_param ==
    /\ pc = "ev_log_param"
    /\ LET section == params.items[sec] IN
       \/ /\ key > Len(section.items)
          /\ sec' = sec + 1
          /\ pc' = "ev_section"
          /\ UNCHANGED <<exc, key, live>>
       \/ /\ key <= Len(section.items)
          /\ live' = [live EXCEPT !.records = Append(@, ParamRecord(section, section.items[key]))]
          /\ key' = key + 1
          /\ pc' = "ev_log_param"
          /\ UNCHANGED <<exc, sec>>
       \/ /\ key <= Len(section.items)
          /\ exc' = Raise("OSError", "log_param")
          /\ pc' = "ev_live_exit"
          /\ UNCHANGED <<sec, key, live>>
    /\ UNCHANGED <<env, dataVars, predVars, params, metricVars,
                   metrics_dict, metricsFile, log, calls, outcome>>

\* line 88, leaving the with block: Live.__exit__ ends the session, then the
\* exception raised inside the block, if any, goes on to the except clauses
\* faulty variant: the session is not ended on the way out
LiveExitLeak(l) == l

LiveExit(l) == [l EXCEPT !.state = "closed"]

ev_live_exit ==
    /\ pc = "ev_live_exit"
    /\ live' = LiveExit(live)
    /\ pc' = IF exc = NoExc THEN "ev_return" ELSE "evaluate_model_except"
    /\ UNCHANGED <<env, exc, dataVars, predVars, params, metricVars, loopVars,
                   metrics_dict, metricsFile, log, calls, outcome>>

\* lines 98-103
MetricsDict ==
    << [key |-> "accuracy",  value |-> accuracy],
       [key |-> "precision", value |-> precision],
       [key |-> "recall",    value |-> recall],
       [key |-> "auc",       value |-> auc] >>

\* lines 98-104: build the mapping and return it to the caller
ev_return ==
    /\ pc = "ev_return"
    /\ metrics_dict' = MetricsDict
    /\ \/ /\ entry = "main"
          /\ calls' = Ended("ok")
          /\ pc' = "main_save"
          /\ UNCHANGED outcome
       \/ /\ entry = "evaluate_model"
          /\ outcome' = "returned"
          /\ pc' = "done"
          /\ UNCHANGED calls
    /\ UNCHANGED <<env, exc, dataVars, predVars, params, metricVars, loopVars, live,
                   metricsFile, log>>

\* lines 105-113
evaluate_model_except ==
    /\ StageHandler("evaluate_model", evaluate_model_clauses,
                    IF entry = "main" THEN "main_except" ELSE "done")
    /\ outcome' = IF entry = "main" THEN outcome ELSE "raised"
    /\ UNCHANGED <<env, dataVars, evalVars, metricsFile, calls>>

\* --------------------------------------------------- save_metrics_dict
\* main, lines 138-139: debug log, save_metrics_dict(metrics_dict, 'reports/metrics.json')
main_save ==
    /\ pc = "main_save"
    /\ log' = Logged("DEBUG", "main", "main:evaluated")
    /\ calls' = Started("save_metrics_dict")
    /\ pc' = "save_open"
    /\ UNCHANGED <<env, exc, dataVars, evalVars, metricsFile, outcome>>

\* line 117: open(file_path, 'w') creates the file or truncates it
save_open ==
    /\ pc = "save_open"
    /\ \E d \in ReportsDirs :
        \/ /\ d = "missing"
           /\ exc' = Raise("FileNotFoundError", "open:reports/metrics.json")
           /\ pc' = "save_metrics_dict_except"
           /\ UNCHANGED metricsFile
        \/ /\ d = "writable"
           /\ metricsFile' = [exists |-> TRUE, content |-> <<>>,
                              writes |-> metricsFile.writes + 1]
           /\ pc' = "save_dump"
           /\ UNCHANGED exc
    /\ UNCHANGED <<env, dataVars, evalVars, log, calls, outcome>>

\* json.dump(metrics, file, indent=4): one member per item, in the dict's
\* order, each float written as the number it is
json_dump(metrics) ==
    [i \in 1..Len(metrics) |-> [key |-> metrics[i].key, value |-> metrics[i].value]]

\* line 118: json.dump, then the file is closed
save_dump ==
    /\ pc = "save_dump"
    /\ \/ /\ metricsFile' = [metricsFile EXCEPT !.content = json_dump(metrics_dict)]
          /\ calls' = Ended("ok")
          /\ pc' = "main_done"
          /\ UNCHANGED exc
       \/ /\ exc' = Raise("OSError", "json.dump")       \* the disk is full
          /\ pc' = "save_metrics_dict_except"
          /\ UNCHANGED <<metricsFile, calls>>
    /\ UNCHANGED <<env, dataVars, evalVars, log, outcome>>

\* lines 119-127
save_metrics_dict_except ==
    /\ StageHandler("save_metrics_dict", save_metrics_dict_clauses, "main_except")
    /\ UNCHANGED <<env, dataVars, evalVars, metricsFile, calls, outcome>>

\* ---------------------------------------------------------------- main
\* line 140: the last debug log, then main() returns
main_done ==
    /\ pc = "main_done"
    /\ log' = Logged("DEBUG", "main", "main:saved")
    /\ outcome' = "returned"
    /\ pc' = "done"
    /\ UNCHANGED <<env, exc, dataVars, evalVars, metricsFile, calls>>

\* faulty variant of main's handler: logs and raises again
MainHandlerReraise ==
    /\ log' = Logged("ERROR", "main", "main:Exception")
    /\ outcome' = "raised"
    /\ UNCHANGED exc

\* lines 141-142: except Exception: log the error; nothing is raised again,
\* main() returns
MainHandler ==
    /\ FirstMatch(main_clauses, exc.cls) > 0
    /\ log' = Logged("ERROR", "main", main_clauses[FirstMatch(main_clauses, exc.cls)].msg)
    /\ exc' = NoExc
    /\ outcome' = "returned"

main_except ==
    /\ pc = "main_except"
    /\ MainHandler
    /\ calls' = Ended("failed")
    /\ pc' = "done"
    /\ UNCHANGED <<env, dataVars, evalVars, metricsFile>>

\* ------------------------------------------------------- specifications
EvaluateNext ==
    \/ ev_predict \/ ev_predict_proba
    \/ load_params_try \/ load_params_except
    \/ ev_metrics
    \/ ev_live_open \/ ev_log_metric
    \/ ev_params_items \/ ev_section \/ ev_log_param
    \/ ev_live_exit \/ ev_return
    \/ evaluate_model_except

Next ==
    \/ main_load_model \/ load_model_try \/ load_model_except
    \/ main_load_data \/ load_data_try \/ load_data_except
    \/ main_split \/ main_evaluate
    \/ EvaluateNext
    \/ main_save \/ save_open \/ save_dump \/ save_metrics_dict_except
    \/ main_done \/ main_except

\* a run of main()
Spec == Init /\ [][Next]_vars

\* a direct call of evaluate_model
SpecEval == InitEval /\ [][EvaluateNext]_vars

\* ---------------------------------------------------------- properties
Last(q) == q[Len(q)]
Lookup(d, k) == d[CHOOSE i \in 1..Len(d) : d[i].key = k].value
Keys(d) == [i \in 1..Len(d) |-> d[i].key]
One == Frac(1, 1)

StageOrder == <<"load_model", "load_data", "split", "evaluate_model", "save_metrics_dict">>
Stages == {"load_params", "load_model", "load_data", "evaluate_model", "save_metrics_dict"}

EvaluatePcs ==
    {"ev_predict", "ev_predict_proba", "load_params", "load_params_except", "ev_metrics",
     "ev_live_open", "ev_log_metric", "ev_params_items", "ev_section", "ev_log_param",
     "ev_live_exit", "ev_return", "evaluate_model_except"}
WithBlockPcs ==
    {"ev_log_metric", "ev_params_items", "ev_section", "ev_log_param", "ev_live_exit"}

\* the stage of main() whose code is at pc
StageOf(p) ==
    CASE p \in {"load_model", "load_model_except"} -> "load_model"
      [] p \in {"load_data", "load_data_except"} -> "load_data"
      [] p \in EvaluatePcs -> "evaluate_model"
      [] p \in {"save_open", "save_dump", "save_metrics_dict_except"} -> "save_metrics_dict"
      [] OTHER -> "none"

SomeStageFailed == \E i \in 1..Len(calls) : calls[i].status = "failed"

\* C1: in every run of main(), whatever stage fails, main() catches the
\* failure, logs it at error severity and returns normally: the run never
\* stops before main() has returned, no exception is left propagating, and a
\* failed run ends as a successful one does (main() returned)
C1_MainSwallowsEveryFailure ==
    /\ outcome # "raised"
    /\ pc # "done" => ENABLED Next
    /\ pc = "done" =>
          /\ outcome = "returned"
          /\ exc = NoExc
          /\ SomeStageFailed =>
                /\ Last(log).level = "ERROR"
                /\ Last(log).fn = "main"
                /\ Last(calls).error # NoExc

C1_Witness ==
    /\ pc = "done" /\ outcome = "returned"
    /\ Len(calls) = 4 /\ Last(calls).status = "failed"
    /\ Last(calls).error.origin = "roc_auc_score"

\* C2: main() starts its stages in the order load_model, load_data, column
\* split, evaluate_model, save_metrics_dict; a stage's code runs only while it
\* is the last stage started, every stage before it has completed
\* successfully, and nothing is started after a stage that failed
C2_StagesInOrder ==
    /\ Len(calls) <= Len(StageOrder)
    /\ \A i \in 1..Len(calls) :
          /\ calls[i].stage = StageOrder[i]
          /\ i < Len(calls) => calls[i].status = "ok"
    /\ StageOf(pc) # "none" =>
          /\ calls # <<>>
          /\ Last(calls).stage = StageOf(pc)
          /\ Last(calls).status = "running"

C2_Witness ==
    /\ pc = "save_dump"
    /\ Len(calls) = 5
    /\ \A i \in 1..4 : calls[i].status = "ok"

ModelFileAbsent == Raise("FileNotFoundError", "open:models/model.pkl")

\* C3: reports/metrics.json differs from what it was before the run only if
\* load_model, load_data, the split and evaluate_model all succeeded; and a run
\* that finds models/model.pkl absent logs an error containing "not found",
\* returns normally and leaves reports/metrics.json as it was
C3_NoReportUnlessEvaluated ==
    /\ metricsFile # metrics0 =>
          /\ Len(calls) = 5
          /\ \A i \in 1..4 : calls[i].status = "ok"
    /\ (pc = "done" /\ calls[1].error = ModelFileAbsent) =>
          /\ \E i \in 1..Len(log) :
                log[i].level = "ERROR" /\ ContainsNotFound(LogText(log[i].msg))
          /\ outcome = "returned"
          /\ metricsFile = metrics0

C3_Witness ==
    /\ pc = "done"
    /\ calls[1].error = ModelFileAbsent
    /\ metrics0 = StaleFile
    /\ metricsFile = StaleFile

HandlerPcs == {fn \o "_except" : fn \in Stages}
CallerExcept(fn) ==
    IF fn = "load_params" THEN "evaluate_model_except"
    ELSE IF fn = "evaluate_model" /\ entry # "main" THEN "done"
    ELSE "main_except"

\* the two parts of C4: every stage handles every failure inside it by logging one record at
\* error severity and then raising the same failure to its caller, leaving
\* its result unassigned; and a failure is never anywhere but in a handler,
\* on its way out of the with block, or with the caller
C4_FailureIsHandled ==
    exc # NoExc =>
        \/ pc \in HandlerPcs \cup {"ev_live_exit", "main_except"}
        \/ pc = "done" /\ entry = "evaluate_model" /\ outcome = "raised"

C4_HandlerStep ==
    \A fn \in Stages :
        pc = fn \o "_except" =>
            /\ exc # NoExc
            /\ exc' = exc
            /\ Len(log') = Len(log) + 1
            /\ SubSeq(log', 1, Len(log)) = log
            /\ Last(log').level = "ERROR"
            /\ Last(log').fn = fn
            /\ pc' = CallerExcept(fn)
            /\ UNCHANGED <<clf, test_data, params, metrics_dict, metricsFile>>

\* C4: both parts: a failure is always being handled, and every handler step
\* logs one error record and raises the same failure to the caller
C4_StagesLogThenReraise == []C4_FailureIsHandled /\ [][C4_HandlerStep]_vars

C4_Witness ==
    /\ pc = "main_except"
    /\ Len(log) >= 2
    /\ log[Len(log) - 1].fn = "load_params" /\ log[Len(log) - 1].level = "ERROR"
    /\ Last(log).fn = "evaluate_model" /\ Last(log).level = "ERROR"
    /\ exc.cls = "YAMLError"
    /\ metrics_dict = <<>>

\* the two parts of C5: the session is open only inside the with block of evaluate_model, so
\* it is closed before evaluate_model returns or raises (also when log_metric
\* or log_param raised) and when main() ends; a closed session receives no
\* further record
C5_OpenOnlyInWithBlock == live.state = "open" => pc \in WithBlockPcs
C5_ClosedIsFinal == live.state = "closed" => live' = live

\* C5: both parts: the session is open only inside the with block, and a
\* closed session never changes again
C5_SessionScoped == []C5_OpenOnlyInWithBlock /\ [][C5_ClosedIsFinal]_vars

C5_Witness ==
    /\ pc = "evaluate_model_except"
    /\ exc.origin = "log_metric"
    /\ live.state = "closed"
    /\ Len(live.records) = 2

\* the records of a kind the session received, in order
RECURSIVE OfKind(_, _)
OfKind(records, kind) ==
    IF records = <<>> THEN <<>>
    ELSE (IF records[1].kind = kind THEN <<records[1]>> ELSE <<>>)
            \o OfKind(Tail(records), kind)

MetricKeys == <<"accuracy", "precision", "recall", "auc">>
Saved == Len(calls) = 5 /\ calls[5].status = "ok"

\* C6 as stated: when evaluate_model has returned, the mapping has exactly the
\* keys accuracy, precision, recall, auc; the session received exactly four
\* metric records, whose names and values are the mapping's keys and values;
\* and a completed save leaves the same keys and values in reports/metrics.json
C6_SameNamesInBothSinks ==
    metrics_dict # <<>> =>
        /\ Keys(metrics_dict) = MetricKeys
        /\ LET m == OfKind(live.records, "metric") IN
              /\ Len(m) = 4
              /\ \A i \in 1..4 :
                    /\ m[i].name = <<metrics_dict[i].key>>
                    /\ m[i].value = metrics_dict[i].value
        /\ Saved => metricsFile.content = metrics_dict

\* C6 amended: as above, except that the session's fourth record, which
\* carries the value of auc, is named 'roc -auc score'
C6_SameValuesInBothSinks ==
    metrics_dict # <<>> =>
        /\ Keys(metrics_dict) = MetricKeys
        /\ LET m == OfKind(live.records, "metric") IN
              /\ Len(m) = 4
              /\ \A i \in 1..4 : m[i].value = metrics_dict[i].value
              /\ \A i \in 1..3 : m[i].name = <<metrics_dict[i].key>>
              /\ m[4].name = <<"roc -auc score">>
        /\ Saved => metricsFile.content = metrics_dict

C6_Witness ==
    /\ pc = "done" /\ Saved
    /\ Len(metricsFile.content) = 4
    /\ Lookup(metrics_dict, "precision") # Lookup(metrics_dict, "recall")
    /\ Len(live.records) > 4

\* C7 as stated: a direct call with Y_test of a row count other than X_test's
\* raises a ValueError (read for a classifier that has predict and
\* predict_proba, so that the two cases of the claim do not overlap), a call
\* with a classifier without predict raises an AttributeError, and neither
\* returns a mapping
C7_AlwaysThatError ==
    pc = "done" =>
        /\ (Len(Y_test) # X_test /\ clf.predict /\ clf.predict_proba) =>
              /\ outcome = "raised"
              /\ IsInstance(exc.cls, "ValueError")
              /\ metrics_dict = <<>>
        /\ ~clf.predict =>
              /\ outcome = "raised"
              /\ IsInstance(exc.cls, "AttributeError")
              /\ metrics_dict = <<>>

\* C7 amended: a call with Y_test of a row count other than X_test's always
\* raises and returns no mapping, and what it raises is the ValueError of the
\* metric computation whenever predict, predict_proba and load_params have
\* succeeded; a call with a classifier without predict raises an
\* AttributeError and returns no mapping
C7_ErrorOnceMetricsAreReached ==
    pc = "done" =>
        /\ Len(Y_test) # X_test =>
              /\ outcome = "raised"
              /\ metrics_dict = <<>>
              /\ params # NoParams =>
                    /\ exc = Raise("ValueError", "accuracy_score")
                    /\ Last(log).msg = "evaluate_model:ValueError"
        /\ ~clf.predict =>
              /\ outcome = "raised"
              /\ IsInstance(exc.cls, "AttributeError")
              /\ metrics_dict = <<>>

C7_Witness ==
    /\ pc = "done" /\ outcome = "raised"
    /\ X_test = 1 /\ Len(Y_test) = 2
    /\ exc.origin = "accuracy_score"

Positives(Y) == Count({i \in Rows(Y) : Y[i] = 1})
AllOnes(P) == \A i \in Rows(P) : P[i] = 1

\* C8: when evaluate_model has returned: if every prediction was 1 and Y_test
\* has p >= 1 positives among its n rows, then accuracy = p/n, recall = 1 and
\* precision = p/n (0.75, 1.0, 0.75 for Y_test = [1,1,0,1]); and accuracy is 1
\* exactly when the predictions equal the labels on every row
C8_MetricValues ==
    outcome = "returned" =>
        /\ (AllOnes(Y_pred) /\ Positives(Y_test) >= 1) =>
              /\ Lookup(metrics_dict, "accuracy") = Frac(Positives(Y_test), Len(Y_test))
              /\ Lookup(metrics_dict, "recall") = One
              /\ Lookup(metrics_dict, "precision") = Frac(Positives(Y_test), Len(Y_test))
        /\ (AllOnes(Y_pred) /\ Y_test = <<1, 1, 0, 1>>) =>
              /\ Lookup(metrics_dict, "accuracy") = <<3, 4>>
              /\ Lookup(metrics_dict, "recall") = <<1, 1>>
              /\ Lookup(metrics_dict, "precision") = <<3, 4>>
        /\ (Lookup(metrics_dict, "accuracy") = One) <=> (Y_pred = Y_test)

C8_Witness ==
    /\ outcome = "returned"
    /\ Y_test = <<1, 1, 0, 1>>
    /\ Y_pred = <<1, 1, 1, 1>>
    /\ Lookup(metrics_dict, "accuracy") = <<3, 4>>

\* C9: evaluate_model logs 'Model does not have the required methods' only
\* for a classifier that lacks predict or predict_proba
C9_IncompatibleModelOnly ==
    (\E i \in 1..Len(log) : log[i].msg = "evaluate_model:AttributeError") =>
        (~clf.predict \/ ~clf.predict_proba)

BeforeSession ==
    {"predict", "predict_proba", "predict_proba[:, 1]", "open:params.yaml",
     "yaml.safe_load", "accuracy_score", "roc_auc_score", "Live"}

\* C10: a session exists only once predict, predict_proba, load_params and the
\* four metric computations have succeeded; a failure of any of them leaves no
\* session and no record; and in the session the four metrics precede every
\* hyperparameter
C10_SessionAfterMetrics ==
    /\ live # NoLive =>
          /\ Len(Y_pred) = X_test
          /\ Len(Y_pred_proba) = X_test
          /\ params # NoParams
          /\ Unset \notin {accuracy, precision, recall, auc}
    /\ exc.origin \in BeforeSession => live = NoLive
    /\ \A i \in 1..Len(live.records) :
          IF i <= 4 THEN live.records[i].kind = "metric"
          ELSE live.records[i].kind = "param"

C10_Witness ==
    /\ live.state = "closed"
    /\ Len(live.records) > 4
    /\ live.records[5].kind = "param"

====
